---------------------------- MODULE Spec2Model ----------------------------
(***************************************************************************)
(* A model of grt (Go Redis Toolbox): the Redis lease lock (Lock) and the  *)
(* Redis job queue (JobQueue, Work) of src/lock.go.                        *)
(*                                                                         *)
(* Time is discrete.  One time unit is a quarter of the lease duration, so *)
(* Expiry is 4 units and the renewal period Expiry/4 is 1 unit.            *)
(***************************************************************************)
EXTENDS Naturals, Integers, Sequences, FiniteSets, TLC

(***************************************************************************)
(* Bounds of the model.                                                    *)
(***************************************************************************)
\* store commands of the lock that may fail in one behaviour
MaxFails == 1
\* renewal goroutines one handle can have at once in the model
MaxHB == 2
\* longest finite wait, in quarters of Expiry, handed to LockWait
MaxWait == 4
\* store commands of the queue that may fail in one behaviour
MaxQFails == 1
\* entries the two lists hold together when Submit still pushes one more
MaxQueue == 3
\* live handles of one key when Get still pops that key
MaxHandles == 2

(***************************************************************************)
(* Program constants.                                                      *)
(***************************************************************************)
\* Expiry: time.Second * 2, counted in quarters of itself
Expiry == 4
\* make(chan ..., 1): errors, stop and stopped hold one element
ChanCap == 1

None == "none"
\* the wait of Lock(), time.Hour * 100000: longer than any run
Forever == -1

\* Goroutines calling Lock/Unlock, and the handle each one uses.  p1 and p2
\* share one handle; p3 has a handle of its own on the same key.
Procs == {"p1", "p2", "p3"}
Handles == {"h1", "h2"}
HandleOf(p) == IF p = "p3" THEN "h2" ELSE "h1"
Slots == 1..MaxHB

Waits == {0, MaxWait, Forever}

ErrLockTimeout == "ErrLockTimeout"
StoreError == "StoreError"
Nil == "nil"

VARIABLES
    \* ---- the lock ----
    key,        \* the lease key in the store: [present, ttl, creator]
    lock,       \* l.lock of each handle: the goroutine holding it, or None
    errors,     \* l.errors of each handle: elements buffered
    stop,       \* l.stop
    stopped,    \* l.stopped
    hb,         \* the heartbeat goroutines of each handle, by slot
    pc,         \* where each calling goroutine is
    wait,       \* LockWait's argument
    elapsed,    \* time since LockWait computed expire, capped
    sleepLeft,  \* time left of time.Sleep(l.Expiry)
    ret,        \* what the goroutine's last call returned
    fails,      \* store commands that have failed so far
    \* history variables of the lock
    keyGone,    \* the key was absent at some moment of the current LockWait
    cmdFailed,  \* a store command of the current LockWait failed
    spawned,    \* the current LockWait started a heartbeat
    expiredSince, \* the key expired since the handle was acquired
    timely,     \* since the acquisition: every renewal on time, no command failed
    \* ---- the job queue ----
    jobType,    \* the Go type of the jobs of this queue
    waiting,    \* the list c.Queue: head first
    processing, \* the list c.Queue + ":processing": head first
    payload,    \* the hash c.Queue + ":payload": dedup key -> stored bytes
    handles,    \* live *Work handles, counted by key
    cpc,        \* where each client is in its operation
    cjob,       \* Submit's job
    ckey,       \* Get's popped key
    cerr,       \* Get's err after HGET and jobQueueUnmarshal
    qfails,     \* store commands of the queue that have failed so far
    \* history variables of the queue
    track,      \* whether the history below is kept (one client, one operation at a time)
    before,     \* HLEN of the payload hash when the current operation started
    last,       \* the last finished operation and what it returned
    prev,       \* the job of the operation before it, if that was a Submit returning nil
    abandoned   \* keys whose handle a stopped consumer dropped, not yet handed out again

lockVars == <<key, lock, errors, stop, stopped, hb, pc, wait, elapsed, sleepLeft,
              ret, fails, keyGone, cmdFailed, spawned, expiredSince, timely>>

queueVars == <<jobType, waiting, processing, payload, handles, cpc, cjob, ckey, cerr,
               qfails, track, before, last, prev, abandoned>>

vars == <<lockVars, queueVars>>

NoKey == [present |-> FALSE, ttl |-> 0, creator |-> None]
NoHB == [pc |-> "none", tick |-> FALSE, since |-> 0]

\* l.Expiry / 4: the period of time.Tick in heartbeat
HbPeriod == Expiry \div 4

\* SET key 1 NX PX expiry: sets the key only when it is absent
SetNX(k, h) == IF k.present THEN k ELSE [present |-> TRUE, ttl |-> Expiry, creator |-> h]
\* A SET without NX answers OK whether or not the key exists.
SetNXReply_Plain(k) == TRUE
\* v != nil: the reply of SET NX is OK only when it set the key
SetNXReply(k) == ~k.present
\* A SET XX that leaves the TTL of the key as it is.
SetXX_NoRefresh(k, h) == k
\* SET key 1 XX PX expiry: sets the key only when it is present
SetXX(k, h) == IF k.present THEN [k EXCEPT !.ttl = Expiry] ELSE k

\* time.Now().After(expire), expire = start + wait
After(e, w) == w # Forever /\ e > w

Held(p) == pc[p] = "held"
HandleHeld(h) == \E p \in Procs : HandleOf(p) = h /\ Held(p)
Live(h) == {i \in Slots : hb[h][i].pc # "none"}

\* NewLock
InitLock ==
    /\ key = NoKey
    /\ lock = [h \in Handles |-> None]
    /\ errors = [h \in Handles |-> 0]
    /\ stop = [h \in Handles |-> 0]
    /\ stopped = [h \in Handles |-> 0]
    /\ hb = [h \in Handles |-> [i \in Slots |-> NoHB]]
    /\ pc = [p \in Procs |-> "idle"]
    /\ wait = [p \in Procs |-> 0]
    /\ elapsed = [p \in Procs |-> 0]
    /\ sleepLeft = [p \in Procs |-> 0]
    /\ ret = [p \in Procs |-> None]
    /\ fails = 0
    /\ keyGone = [p \in Procs |-> FALSE]
    /\ cmdFailed = [p \in Procs |-> FALSE]
    /\ spawned = [p \in Procs |-> FALSE]
    /\ expiredSince = [h \in Handles |-> FALSE]
    /\ timely = [h \in Handles |-> FALSE]

\* A goroutine calls LockWait(w) (Lock() when w is Forever) and reaches l.lock.Lock().
CallLockWait(p, w) ==
    /\ pc[p] = "idle"
    /\ pc' = [pc EXCEPT ![p] = "mutex"]
    /\ wait' = [wait EXCEPT ![p] = w]
    /\ ret' = [ret EXCEPT ![p] = None]
    /\ keyGone' = [keyGone EXCEPT ![p] = ~key.present]
    /\ cmdFailed' = [cmdFailed EXCEPT ![p] = FALSE]
    /\ spawned' = [spawned EXCEPT ![p] = FALSE]
    /\ UNCHANGED <<key, lock, errors, stop, stopped, hb, elapsed, sleepLeft, fails,
                   expiredSince, timely>>

\* l.lock.Lock(); expire := time.Now().Add(wait)
LockWaitMutex(p) ==
    /\ pc[p] = "mutex"
    /\ lock[HandleOf(p)] = None
    /\ lock' = [lock EXCEPT ![HandleOf(p)] = p]
    /\ elapsed' = [elapsed EXCEPT ![p] = 0]
    /\ pc' = [pc EXCEPT ![p] = "try"]
    /\ UNCHANGED <<key, errors, stop, stopped, hb, wait, sleepLeft, ret, fails,
                   keyGone, cmdFailed, spawned, expiredSince, timely>>

\* go l.heartbeat(): the new goroutine takes the first free slot
Spawn(h) ==
    LET i == CHOOSE j \in Slots : hb[h][j].pc = "none" /\ \A m \in Slots : hb[h][m].pc = "none" => j <= m
    IN  [hb EXCEPT ![h][i] = [pc |-> "set", tick |-> FALSE, since |-> 0]]

\* One turn of LockWait's loop up to the sleep: SET NX, then return the error,
\* break and start the heartbeat, or go to sleep.
LockWaitSet(p) ==
    LET h == HandleOf(p) IN
    /\ pc[p] = "try"
    /\ \E out \in {"ok", "err", "errApplied"} :
         IF out = "ok"
         THEN IF SetNXReply(key)
              THEN /\ \E j \in Slots : hb[h][j].pc = "none"
                   /\ key' = SetNX(key, h)
                   /\ hb' = Spawn(h)
                   /\ pc' = [pc EXCEPT ![p] = "held"]
                   /\ ret' = [ret EXCEPT ![p] = Nil]
                   /\ spawned' = [spawned EXCEPT ![p] = TRUE]
                   /\ expiredSince' = [expiredSince EXCEPT ![h] = FALSE]
                   /\ timely' = [timely EXCEPT ![h] = ~cmdFailed[p]]
                   /\ elapsed' = [elapsed EXCEPT ![p] = 0]
                   /\ UNCHANGED <<lock, sleepLeft, fails, cmdFailed>>
              ELSE /\ pc' = [pc EXCEPT ![p] = "sleep"]
                   /\ sleepLeft' = [sleepLeft EXCEPT ![p] = Expiry]
                   /\ UNCHANGED <<key, hb, lock, ret, fails, cmdFailed, spawned,
                                  expiredSince, timely, elapsed>>
         ELSE /\ fails < MaxFails
              /\ fails' = fails + 1
              /\ key' = IF out = "errApplied" THEN SetNX(key, h) ELSE key
              /\ lock' = [lock EXCEPT ![h] = None]
              /\ pc' = [pc EXCEPT ![p] = "idle"]
              /\ ret' = [ret EXCEPT ![p] = StoreError]
              /\ cmdFailed' = [cmdFailed EXCEPT ![p] = TRUE]
              /\ elapsed' = [elapsed EXCEPT ![p] = 0]
              /\ UNCHANGED <<hb, sleepLeft, spawned, expiredSince, timely>>
    /\ UNCHANGED <<errors, stop, stopped, wait, keyGone>>

\* A timeout path that returns with l.lock still locked.
TimeoutRelease_Keep(p) == lock
\* l.lock.Unlock() before return ErrLockTimeout
TimeoutRelease(p) == [lock EXCEPT ![HandleOf(p)] = None]

\* time.Sleep(l.Expiry) is over: time out, or go round the loop again.
LockWaitWake(p) ==
    /\ pc[p] = "sleep"
    /\ sleepLeft[p] = 0
    /\ IF After(elapsed[p], wait[p])
       THEN /\ lock' = TimeoutRelease(p)
            /\ pc' = [pc EXCEPT ![p] = "idle"]
            /\ ret' = [ret EXCEPT ![p] = ErrLockTimeout]
            /\ elapsed' = [elapsed EXCEPT ![p] = 0]
       ELSE /\ pc' = [pc EXCEPT ![p] = "try"]
            /\ UNCHANGED <<lock, ret, elapsed>>
    /\ UNCHANGED <<key, errors, stop, stopped, hb, wait, sleepLeft, fails,
                   keyGone, cmdFailed, spawned, expiredSince, timely>>

\* The holder calls Unlock(): l.stop <- true
UnlockSend(p) ==
    /\ pc[p] = "held"
    /\ stop[HandleOf(p)] < ChanCap
    /\ stop' = [stop EXCEPT ![HandleOf(p)] = @ + 1]
    /\ pc' = [pc EXCEPT ![p] = "unlockRecv"]
    /\ expiredSince' = [expiredSince EXCEPT ![HandleOf(p)] = FALSE]
    /\ timely' = [timely EXCEPT ![HandleOf(p)] = FALSE]
    /\ UNCHANGED <<key, lock, errors, stopped, hb, wait, elapsed, sleepLeft,
                   ret, fails, keyGone, cmdFailed, spawned>>

\* <-l.stopped, then the deferred l.lock.Unlock()
UnlockRecv(p) ==
    /\ pc[p] = "unlockRecv"
    /\ stopped[HandleOf(p)] > 0
    /\ stopped' = [stopped EXCEPT ![HandleOf(p)] = @ - 1]
    /\ lock' = [lock EXCEPT ![HandleOf(p)] = None]
    /\ pc' = [pc EXCEPT ![p] = "idle"]
    /\ ret' = [ret EXCEPT ![p] = None]
    /\ UNCHANGED <<key, errors, stop, hb, wait, elapsed, sleepLeft,
                   fails, keyGone, cmdFailed, spawned, expiredSince, timely>>

\* heartbeat: SET XX, and on an error go and send it on l.errors
HbSet(h, i) ==
    /\ hb[h][i].pc = "set"
    /\ \E out \in {"ok", "err", "errApplied"} :
         IF out = "ok"
         THEN /\ key' = SetXX(key, h)
              /\ hb' = [hb EXCEPT ![h][i].pc = "select"]
              /\ UNCHANGED <<fails, timely>>
         ELSE /\ fails < MaxFails
              /\ fails' = fails + 1
              /\ key' = IF out = "errApplied" THEN SetXX(key, h) ELSE key
              /\ hb' = [hb EXCEPT ![h][i].pc = "errSend"]
              /\ timely' = [timely EXCEPT ![h] = FALSE]
    /\ UNCHANGED <<lock, errors, stop, stopped, pc, wait, elapsed, sleepLeft, ret,
                   keyGone, cmdFailed, spawned, expiredSince>>

\* heartbeat: l.errors <- err; return
HbErrSend(h, i) ==
    /\ hb[h][i].pc = "errSend"
    /\ errors[h] < ChanCap
    /\ errors' = [errors EXCEPT ![h] = @ + 1]
    /\ hb' = [hb EXCEPT ![h][i] = NoHB]
    /\ UNCHANGED <<key, lock, stop, stopped, pc, wait, elapsed, sleepLeft, ret, fails,
                   keyGone, cmdFailed, spawned, expiredSince, timely>>

\* heartbeat: select takes case <-l.stop
HbSelectStop(h, i) ==
    /\ hb[h][i].pc = "select"
    /\ stop[h] > 0
    /\ stop' = [stop EXCEPT ![h] = @ - 1]
    /\ hb' = [hb EXCEPT ![h][i].pc = "ack"]
    /\ UNCHANGED <<key, lock, errors, stopped, pc, wait, elapsed, sleepLeft, ret, fails,
                   keyGone, cmdFailed, spawned, expiredSince, timely>>

\* A heartbeat that acknowledges on l.stopped and goes round its loop again.
HbAck_Stay(h, i) ==
    /\ hb[h][i].pc = "ack"
    /\ stopped[h] < ChanCap
    /\ stopped' = [stopped EXCEPT ![h] = @ + 1]
    /\ hb' = [hb EXCEPT ![h][i].pc = "set"]
    /\ UNCHANGED <<key, lock, errors, stop, pc, wait, elapsed, sleepLeft, ret, fails,
                   keyGone, cmdFailed, spawned, expiredSince, timely>>

\* heartbeat: l.stopped <- true; return
HbAck(h, i) ==
    /\ hb[h][i].pc = "ack"
    /\ stopped[h] < ChanCap
    /\ stopped' = [stopped EXCEPT ![h] = @ + 1]
    /\ hb' = [hb EXCEPT ![h][i] = NoHB]
    /\ UNCHANGED <<key, lock, errors, stop, pc, wait, elapsed, sleepLeft, ret, fails,
                   keyGone, cmdFailed, spawned, expiredSince, timely>>

\* heartbeat: select takes case <-wait, and the loop goes round
HbSelectTick(h, i) ==
    /\ hb[h][i].pc = "select"
    /\ hb[h][i].tick
    /\ hb' = [hb EXCEPT ![h][i].pc = "set", ![h][i].tick = FALSE]
    /\ UNCHANGED <<key, lock, errors, stop, stopped, pc, wait, elapsed, sleepLeft, ret,
                   fails, keyGone, cmdFailed, spawned, expiredSince, timely>>

\* A heartbeat that has a renewal to do now: a tick to take, or a SET to issue.
HbDue(h) == \E i \in Slots : hb[h][i].pc = "set" \/ (hb[h][i].pc = "select" /\ hb[h][i].tick)

\* The ticker of one heartbeat after one more time unit: time.Tick's channel
\* holds one tick and drops the ones a slow reader misses.
TickHB(r) ==
    IF r.pc = "none" THEN r
    ELSE IF r.since + 1 >= HbPeriod
         THEN [r EXCEPT !.tick = (HbPeriod > 0) \/ r.tick, !.since = 0]
         ELSE [r EXCEPT !.since = r.since + 1]

\* The store's TTL after one more time unit.
TickKey(k) ==
    IF ~k.present THEN k
    ELSE IF k.ttl <= 1 THEN NoKey ELSE [k EXCEPT !.ttl = k.ttl - 1]

\* One time unit (a quarter of Expiry) passes.
Tick ==
    /\ key' = TickKey(key)
    /\ hb' = [h \in Handles |-> [i \in Slots |-> TickHB(hb[h][i])]]
    /\ sleepLeft' = [p \in Procs |-> IF sleepLeft[p] > 0 THEN sleepLeft[p] - 1 ELSE 0]
    /\ elapsed' = [p \in Procs |->
                     IF pc[p] \in {"try", "sleep"} /\ wait[p] # Forever /\ elapsed[p] <= wait[p]
                     THEN elapsed[p] + 1 ELSE elapsed[p]]
    /\ keyGone' = [p \in Procs |->
                     keyGone[p] \/ (pc[p] \in {"mutex", "try", "sleep"} /\ ~key'.present)]
    /\ expiredSince' = [h \in Handles |->
                     expiredSince[h] \/ (HandleHeld(h) /\ key.present /\ ~key'.present)]
    /\ timely' = [h \in Handles |-> timely[h] /\ ~HbDue(h)]
    /\ UNCHANGED <<lock, errors, stop, stopped, pc, wait, ret, fails, cmdFailed, spawned>>

\* The steps of the goroutines PS and of the heartbeats of their handles.
NextLockOn(PS) ==
    \/ \E p \in PS, w \in Waits : CallLockWait(p, w) /\ UNCHANGED queueVars
    \/ \E p \in PS : LockWaitMutex(p) /\ UNCHANGED queueVars
    \/ \E p \in PS : LockWaitSet(p) /\ UNCHANGED queueVars
    \/ \E p \in PS : LockWaitWake(p) /\ UNCHANGED queueVars
    \/ \E p \in PS : UnlockSend(p) /\ UNCHANGED queueVars
    \/ \E p \in PS : UnlockRecv(p) /\ UNCHANGED queueVars
    \/ \E h \in Handles, i \in Slots : HbSet(h, i) /\ UNCHANGED queueVars
    \/ \E h \in Handles, i \in Slots : HbErrSend(h, i) /\ UNCHANGED queueVars
    \/ \E h \in Handles, i \in Slots : HbSelectStop(h, i) /\ UNCHANGED queueVars
    \/ \E h \in Handles, i \in Slots : HbAck(h, i) /\ UNCHANGED queueVars
    \/ \E h \in Handles, i \in Slots : HbSelectTick(h, i) /\ UNCHANGED queueVars
    \/ Tick /\ UNCHANGED queueVars

(***************************************************************************)
(* The job queue.                                                          *)
(***************************************************************************)

Clients == {"c1", "c2"}

\* The job values: a struct with two fields.  Two of the jobs share the url.
Jobs == {[url |-> "a", rev |-> 1], [url |-> "a", rev |-> 2], [url |-> "b", rev |-> 1]}
\* The zero value of the job struct: what Get's output holds before Unmarshal.
NoJob == [url |-> "", rev |-> 0]

\* The job types a queue is used with: "Job" has no JobQueueKey method;
\* "UrlKeyer" implements JobQueueKeyer and returns the url's bytes;
\* "JSONKeyer" implements it and returns the JSON object of the url alone.
JobTypes == {"Job", "UrlKeyer", "JSONKeyer"}

ErrAlreadyQueued == "ErrAlreadyQueued"
ErrNil == "redis.ErrNil"
UnmarshalError == "json.UnmarshalError"
Panic == "panic"

\* json.Marshal(v), as the tokens of the encoded object
jobQueueRawMarshal(job) == <<"{", job.url, job.rev, "}">>

\* job.(JobQueueKeyer)
IsKeyer(t) == t # "Job"

\* keyer.JobQueueKey()
JobQueueKey(t, job) == IF t = "UrlKeyer" THEN <<job.url>> ELSE <<"{", job.url, "}">>

\* jobQueueMarshal: key = payload; a keyer's JobQueueKey() replaces the payload
jobQueueMarshal(t, job) ==
    [key |-> jobQueueRawMarshal(job),
     payload |-> IF IsKeyer(t) THEN JobQueueKey(t, job) ELSE jobQueueRawMarshal(job)]

\* json.Unmarshal(payload, v) into a zero job: a field the object lacks keeps
\* its zero value; bytes that are no JSON object are an error.
jobQueueUnmarshal(bytes) ==
    IF Len(bytes) = 4 /\ bytes[1] = "{" /\ bytes[4] = "}"
    THEN [err |-> Nil, v |-> [url |-> bytes[2], rev |-> bytes[3]]]
    ELSE IF Len(bytes) = 3 /\ bytes[1] = "{" /\ bytes[3] = "}"
         THEN [err |-> Nil, v |-> [NoJob EXCEPT !.url = bytes[2]]]
         ELSE [err |-> UnmarshalError, v |-> NoJob]

Keys == {jobQueueRawMarshal(j) : j \in Jobs}
Range(s) == {s[i] : i \in DOMAIN s}
Count(s, k) == Cardinality({i \in DOMAIN s : s[i] = k})

\* ---- the store's commands ----
\* An LPUSH that pushes nothing.
LPUSH_Nothing(list, k) == list
\* An LPUSH that puts k at the tail.
LPUSH_Tail(list, k) == Append(list, k)
\* LPUSH list k: k becomes the head
LPUSH(list, k) == <<k>> \o list
\* An LREM that removes nothing.
LREM_Nothing(list, k) == list
\* LREM list 0 k: every occurrence of k
LREM(list, k) == SelectSeq(list, LAMBDA x : x # k)
HSET(h, k, v) == (k :> v) @@ h
\* An HDEL that removes nothing.
HDEL_Nothing(h, k) == h
HDEL(h, k) == [x \in (DOMAIN h) \ {k} |-> h[x]]
\* An HEXISTS that never finds the field.
HEXISTS_Never(h, k) == FALSE
HEXISTS(h, k) == k \in DOMAIN h
HLEN(h) == Cardinality(DOMAIN h)
\* An RPOPLPUSH that pops the element and pushes it nowhere.
RPOPLPUSH_Drop(src, dst) ==
    [src |-> SubSeq(src, 1, Len(src) - 1), dst |-> dst, v |-> src[Len(src)]]
\* An RPOPLPUSH that pushes the element and leaves it in the source as well.
RPOPLPUSH_Keep(src, dst) ==
    [src |-> src, dst |-> <<src[Len(src)]>> \o dst, v |-> src[Len(src)]]
\* RPOPLPUSH src dst (and BRPOPLPUSH once src is not empty): the tail of src
\* becomes the head of dst and is the reply
RPOPLPUSH(src, dst) ==
    [src |-> SubSeq(src, 1, Len(src) - 1), dst |-> LPUSH(dst, src[Len(src)]),
     v |-> src[Len(src)]]
Tail1(src) == src[Len(src)]

EmptyHash == [k \in {} |-> <<>>]
\* The lists and the hash, as a Submit that was refused found them.
Snap == [waiting |-> waiting, processing |-> processing, payload |-> payload]
NoSnap == [waiting |-> <<>>, processing |-> <<>>, payload |-> EmptyHash]

\* What an operation returned: err, the handle (Get), the value (Get's output,
\* Len's count, IsQueued's answer), with the job and key it was about, whether a
\* store command of it failed, HLEN before it, whether the key Get popped was an
\* abandoned one, and, for a refused Submit, the store before it.
Rec(op, job, k, err, handle, v, failed) ==
    [op |-> op, job |-> job, key |-> k, err |-> err, handle |-> handle, v |-> v,
     failed |-> failed, n |-> before, wasAbandoned |-> k \in abandoned, snap |-> NoSnap]
NoRec == [op |-> None, job |-> NoJob, key |-> <<>>, err |-> Nil, handle |-> FALSE,
          v |-> NoJob, failed |-> FALSE, n |-> 0, wasAbandoned |-> FALSE, snap |-> NoSnap]

\* Of the operation before the last one only this much is kept.
Brief(r) == IF r.op = "Submit" /\ r.err = Nil THEN r.job ELSE NoJob

\* An operation starts, and an operation returns (Done1: in its first step).
Start == before' = IF track THEN HLEN(payload) ELSE before
Done(r) ==
    /\ last' = IF track THEN r ELSE last
    /\ prev' = IF track THEN Brief(last) ELSE prev
Done1(r) ==
    /\ last' = IF track THEN [r EXCEPT !.n = HLEN(payload)] ELSE last
    /\ prev' = IF track THEN Brief(last) ELSE prev
    /\ before' = IF track THEN HLEN(payload) ELSE before

\* The outcomes of one store command: it succeeds, fails without effect, or
\* fails after the store applied it.  A read has no effect to apply.
Outs == {"ok", "err", "errApplied"}
ReadOuts == {"ok", "err"}
MayFail(out) == out = "ok" \/ qfails < MaxQFails
Fails(out) == qfails' = IF out = "ok" THEN qfails ELSE qfails + 1

\* NewJobQueue, for a queue whose jobs are of one of the types ts; f0 of the
\* MaxQFails store failures are taken as spent.
InitQueue(ts, tr, f0) ==
    /\ jobType \in ts
    /\ track = tr
    /\ waiting = <<>>
    /\ processing = <<>>
    /\ payload = EmptyHash
    /\ handles = [k \in Keys |-> 0]
    /\ cpc = [c \in Clients |-> "idle"]
    /\ cjob = [c \in Clients |-> NoJob]
    /\ ckey = [c \in Clients |-> <<>>]
    /\ cerr = [c \in Clients |-> Nil]
    /\ qfails = f0
    /\ before = 0
    /\ last = NoRec
    /\ prev = Brief(NoRec)
    /\ abandoned = {}

\* Len: HLEN
QLen(c) ==
    /\ cpc[c] = "idle"
    /\ \E out \in ReadOuts :
         /\ MayFail(out)
         /\ Fails(out)
         /\ Done1(IF out = "ok"
                  THEN Rec("Len", NoJob, <<>>, Nil, FALSE, HLEN(payload), FALSE)
                  ELSE Rec("Len", NoJob, <<>>, StoreError, FALSE, 0, TRUE))
    /\ UNCHANGED <<jobType, waiting, processing, payload, handles, cpc, cjob, ckey, cerr,
                   track, abandoned>>

\* IsQueued: jobQueueMarshal, HEXISTS
IsQueued(c, job) ==
    /\ cpc[c] = "idle"
    /\ \E out \in ReadOuts :
         /\ MayFail(out)
         /\ Fails(out)
         /\ LET k == jobQueueMarshal(jobType, job).key IN
            Done1(IF out = "ok"
                  THEN Rec("IsQueued", job, k, Nil, FALSE, HEXISTS(payload, k), FALSE)
                  ELSE Rec("IsQueued", job, k, StoreError, FALSE, FALSE, TRUE))
    /\ UNCHANGED <<jobType, waiting, processing, payload, handles, cpc, cjob, ckey, cerr,
                   track, abandoned>>

\* Submit up to the check: jobQueueMarshal, then c.IsQueued(job); an error of
\* IsQueued and a queued job both return ErrAlreadyQueued.
SubmitCheck(c, job) ==
    /\ cpc[c] = "idle"
    /\ Start
    /\ \E out \in ReadOuts :
         /\ MayFail(out)
         /\ Fails(out)
         /\ LET k == jobQueueMarshal(jobType, job).key IN
            IF out # "ok" \/ HEXISTS(payload, k)
            THEN /\ last' = IF track
                            THEN [Rec("Submit", job, k, ErrAlreadyQueued, FALSE, NoJob, out # "ok")
                                    EXCEPT !.n = HLEN(payload), !.snap = Snap]
                            ELSE last
                 /\ prev' = IF track THEN Brief(last) ELSE prev
                 /\ UNCHANGED <<cpc, cjob>>
            ELSE /\ cpc' = [cpc EXCEPT ![c] = "submitExec"]
                 /\ cjob' = [cjob EXCEPT ![c] = job]
                 /\ UNCHANGED <<last, prev>>
    /\ UNCHANGED <<jobType, waiting, processing, payload, handles, ckey, cerr,
                   track, abandoned>>

\* Submit's transaction: MULTI, LPUSH queue key, HSET queue:payload key payload, EXEC
SubmitExec(c) ==
    /\ cpc[c] = "submitExec"
    /\ Len(waiting) + Len(processing) < MaxQueue
    /\ \E out \in Outs :
         /\ MayFail(out)
         /\ Fails(out)
         /\ LET m == jobQueueMarshal(jobType, cjob[c]) IN
            /\ IF out \in {"ok", "errApplied"}
               THEN /\ waiting' = LPUSH(waiting, m.key)
                    /\ payload' = HSET(payload, m.key, m.payload)
               ELSE UNCHANGED <<waiting, payload>>
            /\ Done(Rec("Submit", cjob[c], m.key, IF out = "ok" THEN Nil ELSE StoreError,
                        FALSE, NoJob, out # "ok"))
    /\ cpc' = [cpc EXCEPT ![c] = "idle"]
    /\ cjob' = [cjob EXCEPT ![c] = NoJob]
    /\ UNCHANGED <<jobType, processing, handles, ckey, cerr, track, before, abandoned>>

\* Get: BRPOPLPUSH queue queue:processing 0, which blocks while the list is empty
GetPop(c) ==
    /\ cpc[c] = "idle"
    /\ Start
    /\ \E out \in Outs :
         /\ MayFail(out)
         /\ Fails(out)
         /\ (out = "err" \/ (waiting # <<>> /\ handles[Tail1(waiting)] < MaxHandles))
         /\ IF out = "err"
            THEN UNCHANGED <<waiting, processing>>
            ELSE /\ waiting' = RPOPLPUSH(waiting, processing).src
                 /\ processing' = RPOPLPUSH(waiting, processing).dst
         /\ IF out = "ok"
            THEN /\ cpc' = [cpc EXCEPT ![c] = "getRead"]
                 /\ ckey' = [ckey EXCEPT ![c] = RPOPLPUSH(waiting, processing).v]
                 /\ UNCHANGED <<last, prev>>
            ELSE /\ last' = IF track
                            THEN [Rec("Get", NoJob, <<>>, StoreError, FALSE, NoJob, TRUE)
                                    EXCEPT !.n = HLEN(payload)]
                            ELSE last
                 /\ prev' = IF track THEN Brief(last) ELSE prev
                 /\ UNCHANGED <<cpc, ckey>>
    /\ UNCHANGED <<jobType, payload, handles, cjob, cerr, track, abandoned>>

\* Get: HGET queue:payload key, jobQueueUnmarshal, and the handle or the error
GetRead(c) ==
    /\ cpc[c] = "getRead"
    /\ \E out \in ReadOuts :
         /\ MayFail(out)
         /\ Fails(out)
         /\ LET k == ckey[c]
                e == IF out # "ok" THEN StoreError
                     ELSE IF ~HEXISTS(payload, k) THEN ErrNil
                     ELSE jobQueueUnmarshal(payload[k]).err
            IN IF e = Nil
               THEN /\ handles' = [handles EXCEPT ![k] = @ + 1]
                    /\ abandoned' = abandoned \ {k}
                    /\ cpc' = [cpc EXCEPT ![c] = "idle"]
                    /\ ckey' = [ckey EXCEPT ![c] = <<>>]
                    /\ Done(Rec("Get", NoJob, k, Nil, TRUE, jobQueueUnmarshal(payload[k]).v, FALSE))
                    /\ UNCHANGED cerr
               ELSE /\ cpc' = [cpc EXCEPT ![c] = "getResubmit"]
                    /\ cerr' = [cerr EXCEPT ![c] = e]
                    /\ UNCHANGED <<handles, abandoned, ckey, last, prev>>
    /\ UNCHANGED <<jobType, waiting, processing, payload, cjob, track, before>>

\* The lists hold fewer than MaxQueue entries once key k has left the processing list.
Room(k) == Len(waiting) + Cardinality({i \in DOMAIN processing : processing[i] # k}) < MaxQueue

\* A Get that returns the error and leaves the key in the processing list.
GetResubmit_NoMove(c) ==
    /\ cpc[c] = "getResubmit"
    /\ Done(Rec("Get", NoJob, ckey[c], cerr[c], FALSE, NoJob, cerr[c] = StoreError))
    /\ cpc' = [cpc EXCEPT ![c] = "idle"]
    /\ ckey' = [ckey EXCEPT ![c] = <<>>]
    /\ cerr' = [cerr EXCEPT ![c] = Nil]
    /\ UNCHANGED <<jobType, waiting, processing, payload, handles, cjob, qfails, track,
                   before, abandoned>>

\* Get: work.Resubmit() after an error, panic when that fails, else return the error
GetResubmit(c) ==
    /\ cpc[c] = "getResubmit"
    /\ Room(ckey[c])
    /\ \E out \in Outs :
         /\ MayFail(out)
         /\ Fails(out)
         /\ IF out \in {"ok", "errApplied"}
            THEN /\ processing' = LREM(processing, ckey[c])
                 /\ waiting' = LPUSH(waiting, ckey[c])
            ELSE UNCHANGED <<waiting, processing>>
         /\ Done(Rec("Get", NoJob, ckey[c], IF out = "ok" THEN cerr[c] ELSE Panic, FALSE,
                     NoJob, out # "ok" \/ cerr[c] = StoreError))
    /\ cpc' = [cpc EXCEPT ![c] = "idle"]
    /\ ckey' = [ckey EXCEPT ![c] = <<>>]
    /\ cerr' = [cerr EXCEPT ![c] = Nil]
    /\ UNCHANGED <<jobType, payload, handles, cjob, track, before, abandoned>>

\* Work.Complete on a live handle: MULTI, LREM queue:processing 0 key,
\* HDEL queue:payload key, EXEC
Complete(c, k) ==
    /\ cpc[c] = "idle"
    /\ handles[k] > 0
    /\ handles' = [handles EXCEPT ![k] = @ - 1]
    /\ \E out \in Outs :
         /\ MayFail(out)
         /\ Fails(out)
         /\ IF out \in {"ok", "errApplied"}
            THEN /\ processing' = LREM(processing, k)
                 /\ payload' = HDEL(payload, k)
            ELSE UNCHANGED <<processing, payload>>
         /\ Done1(Rec("Complete", NoJob, k, IF out = "ok" THEN Nil ELSE StoreError, FALSE,
                      NoJob, out # "ok"))
    /\ UNCHANGED <<jobType, waiting, cpc, cjob, ckey, cerr, track, abandoned>>

\* Work.Resubmit on a live handle: MULTI, LREM queue:processing 0 key,
\* LPUSH queue key, EXEC
Resubmit(c, k) ==
    /\ cpc[c] = "idle"
    /\ handles[k] > 0
    /\ Room(k)
    /\ handles' = [handles EXCEPT ![k] = @ - 1]
    /\ \E out \in Outs :
         /\ MayFail(out)
         /\ Fails(out)
         /\ IF out \in {"ok", "errApplied"}
            THEN /\ processing' = LREM(processing, k)
                 /\ waiting' = LPUSH(waiting, k)
            ELSE UNCHANGED <<waiting, processing>>
         /\ Done1(Rec("Resubmit", NoJob, k, IF out = "ok" THEN Nil ELSE StoreError, FALSE,
                      NoJob, out # "ok"))
    /\ UNCHANGED <<jobType, payload, cpc, cjob, ckey, cerr, track, abandoned>>

\* No client is inside an operation.
Idle == \A c \in Clients : cpc[c] = "idle"

\* The consumer holding a handle stops without calling Complete or Resubmit.
Abandon(k) ==
    /\ handles[k] > 0
    /\ \A c \in Clients : cpc[c] = "idle"
    /\ handles' = [handles EXCEPT ![k] = @ - 1]
    /\ abandoned' = abandoned \cup {k}
    /\ UNCHANGED <<jobType, waiting, processing, payload, cpc, cjob, ckey, cerr, qfails,
                   track, before, last, prev>>

NoLiveHandle == \A k \in Keys : handles[k] = 0

\* Cleanup is called
CleanupCall(c) ==
    /\ cpc[c] = "idle"
    /\ Start
    /\ cpc' = [cpc EXCEPT ![c] = "cleanup"]
    /\ UNCHANGED <<jobType, waiting, processing, payload, handles, cjob, ckey, cerr, qfails,
                   track, last, prev, abandoned>>

\* Cleanup: one RPOPLPUSH queue:processing queue; nil ends the loop, an error returns
CleanupStep(c) ==
    /\ cpc[c] = "cleanup"
    /\ \E out \in Outs :
         /\ MayFail(out)
         /\ Fails(out)
         /\ IF out \in {"ok", "errApplied"} /\ processing # <<>>
            THEN /\ processing' = RPOPLPUSH(processing, waiting).src
                 /\ waiting' = RPOPLPUSH(processing, waiting).dst
            ELSE UNCHANGED <<waiting, processing>>
         /\ IF out = "ok" /\ processing # <<>>
            THEN UNCHANGED <<cpc, last, prev>>
            ELSE /\ cpc' = [cpc EXCEPT ![c] = "idle"]
                 /\ Done(Rec("Cleanup", NoJob, <<>>, IF out = "ok" THEN Nil ELSE StoreError,
                             FALSE, NoJob, out # "ok"))
    /\ UNCHANGED <<jobType, payload, handles, cjob, ckey, cerr, track, before, abandoned>>

\* One client at a time, one operation at a time; Cleanup runs at startup,
\* when no handle is live.
NextQueueSeq ==
    \/ QLen("c1") /\ UNCHANGED lockVars
    \/ \E j \in Jobs : IsQueued("c1", j) /\ UNCHANGED lockVars
    \/ \E j \in Jobs : SubmitCheck("c1", j) /\ UNCHANGED lockVars
    \/ SubmitExec("c1") /\ UNCHANGED lockVars
    \/ GetPop("c1") /\ UNCHANGED lockVars
    \/ GetRead("c1") /\ UNCHANGED lockVars
    \/ GetResubmit("c1") /\ UNCHANGED lockVars
    \/ \E k \in Keys : Complete("c1", k) /\ UNCHANGED lockVars
    \/ \E k \in Keys : Resubmit("c1", k) /\ UNCHANGED lockVars
    \/ \E k \in Keys : Abandon(k) /\ UNCHANGED lockVars
    \/ NoLiveHandle /\ CleanupCall("c1") /\ UNCHANGED lockVars
    \/ CleanupStep("c1") /\ UNCHANGED lockVars

InitQueueSeq == InitLock /\ InitQueue(JobTypes, TRUE, 0)
SpecQueueSeq == InitQueueSeq /\ [][NextQueueSeq]_vars

\* Several clients, their store commands interleaved.
NextQueue(JS) ==
    \/ \E c \in Clients, j \in JS : SubmitCheck(c, j) /\ UNCHANGED lockVars
    \/ \E c \in Clients : SubmitExec(c) /\ UNCHANGED lockVars
    \/ \E c \in Clients : GetPop(c) /\ UNCHANGED lockVars
    \/ \E c \in Clients : GetRead(c) /\ UNCHANGED lockVars
    \/ \E c \in Clients : GetResubmit(c) /\ UNCHANGED lockVars
    \/ \E c \in Clients, k \in Keys : Complete(c, k) /\ UNCHANGED lockVars
    \/ \E c \in Clients, k \in Keys : Resubmit(c, k) /\ UNCHANGED lockVars

InitQueueConc == InitLock /\ InitQueue({"Job"}, FALSE, MaxQFails)
SpecQueue == InitQueueConc /\ [][NextQueue(Jobs)]_vars

\* Work.Complete on a handle the caller goes on using: the *Work value is not
\* changed by the call, so Complete or Resubmit can be called on it again.
CompleteAgain(c, k) ==
    /\ cpc[c] = "idle"
    /\ handles[k] > 0
    /\ \E out \in Outs :
         /\ MayFail(out)
         /\ Fails(out)
         /\ IF out \in {"ok", "errApplied"}
            THEN /\ processing' = LREM(processing, k)
                 /\ payload' = HDEL(payload, k)
            ELSE UNCHANGED <<processing, payload>>
         /\ Done1(Rec("Complete", NoJob, k, IF out = "ok" THEN Nil ELSE StoreError, FALSE,
                      NoJob, out # "ok"))
    /\ UNCHANGED <<jobType, waiting, handles, cpc, cjob, ckey, cerr, track, abandoned>>

\* Work.Resubmit on a handle the caller goes on using.
ResubmitAgain(c, k) ==
    /\ cpc[c] = "idle"
    /\ handles[k] > 0
    /\ Room(k)
    /\ \E out \in Outs :
         /\ MayFail(out)
         /\ Fails(out)
         /\ IF out \in {"ok", "errApplied"}
            THEN /\ processing' = LREM(processing, k)
                 /\ waiting' = LPUSH(waiting, k)
            ELSE UNCHANGED <<waiting, processing>>
         /\ Done1(Rec("Resubmit", NoJob, k, IF out = "ok" THEN Nil ELSE StoreError, FALSE,
                      NoJob, out # "ok"))
    /\ UNCHANGED <<jobType, payload, handles, cpc, cjob, ckey, cerr, track, abandoned>>

\* The jobs the clients submit when every operation is interleaved with every other.
FewJobs == {j \in Jobs : j.rev = 1}

\* Several clients, every operation, Cleanup at any time, and handles used more
\* than once.
NextQueueAny ==
    \/ NextQueue(FewJobs)
    \/ \E c \in Clients, k \in Keys : CompleteAgain(c, k) /\ UNCHANGED lockVars
    \/ \E c \in Clients, k \in Keys : ResubmitAgain(c, k) /\ UNCHANGED lockVars
    \/ \E c \in Clients : CleanupCall(c) /\ UNCHANGED lockVars
    \/ \E c \in Clients : CleanupStep(c) /\ UNCHANGED lockVars

InitQueueAny == InitLock /\ InitQueue({"Job"}, FALSE, MaxQFails)
SpecQueueAny == InitQueueAny /\ [][NextQueueAny]_vars

\* No client is inside Get.
NoGet == \A c \in Clients : cpc[c] \in {"idle", "cleanup"}

\* Client c1 fills the lists and its consumer stops with jobs checked out; then
\* the clients run Cleanup, their commands interleaved, with no Get in progress.
NextCleanup ==
    \/ \E j \in Jobs : Idle /\ SubmitCheck("c1", j) /\ UNCHANGED lockVars
    \/ SubmitExec("c1") /\ UNCHANGED lockVars
    \/ Idle /\ GetPop("c1") /\ UNCHANGED lockVars
    \/ GetRead("c1") /\ UNCHANGED lockVars
    \/ GetResubmit("c1") /\ UNCHANGED lockVars
    \/ \E k \in Keys : Abandon(k) /\ UNCHANGED lockVars
    \/ \E c \in Clients : NoLiveHandle /\ NoGet /\ CleanupCall(c) /\ UNCHANGED lockVars
    \/ \E c \in Clients : CleanupStep(c) /\ UNCHANGED lockVars

InitCleanup == InitLock /\ InitQueue({"Job"}, TRUE, 0)
\* A client inside Cleanup goes on issuing its next RPOPLPUSH.
SpecCleanup ==
    /\ InitCleanup /\ [][NextCleanup]_vars
    /\ \A c \in Clients : WF_vars(CleanupStep(c) /\ UNCHANGED lockVars)

\* Two handles on one key, one goroutine on each.
InitLockOnly == InitLock /\ InitQueue({"Job"}, FALSE, 0)
SpecLock == InitLockOnly /\ [][NextLockOn({"p1", "p3"})]_vars

\* Two goroutines calling Lock/Unlock pairs on one handle.
SpecLockShared == InitLockOnly /\ [][NextLockOn({"p1", "p2"})]_vars

(***************************************************************************)
(* Claims about the lock.                                                  *)
(***************************************************************************)

\* C1: mutual exclusion.  Two handles on the same key are never both held
\* (LockWait returned nil, Unlock not yet called) unless the lease key has
\* expired in the store since one of them acquired it.
C1_MutualExclusion ==
    \A p, q \in Procs :
        (HandleOf(p) # HandleOf(q) /\ Held(p) /\ Held(q))
            => (expiredSince[HandleOf(p)] \/ expiredSince[HandleOf(q)])

\* One handle holds an unexpired lease and the other, refused by SET NX, sleeps.
C1_Witness ==
    /\ Held("p1") /\ ~expiredSince["h1"] /\ key.present
    /\ pc["p3"] = "sleep"

\* C8: a LockWait that found the key present for its whole wait, with no store
\* failure, returned ErrLockTimeout, with l.lock released and no heartbeat started.
C8_TimeoutOnHeldLock ==
    \A p \in Procs :
        (ret[p] # None /\ ~keyGone[p] /\ ~cmdFailed[p])
            => /\ ret[p] = ErrLockTimeout
               /\ lock[HandleOf(p)] # p
               /\ ~spawned[p]

\* p3 timed out on a key that p1's handle held throughout.
C8_Witness ==
    /\ ret["p3"] = ErrLockTimeout /\ ~keyGone["p3"] /\ ~cmdFailed["p3"]
    /\ Held("p1") /\ key.creator = "h1"

\* C9: lease renewal.  While a handle is held, its heartbeat has made every
\* renewal on its period and no store command of it has failed, the lease key is
\* present and is still the one this handle created: no other handle acquired it.
C9_RenewalKeepsLease ==
    \A h \in Handles :
        (HandleHeld(h) /\ timely[h]) => (key.present /\ key.creator = h)

\* p1 has held the lease, renewed on time, for longer than one Expiry while p3
\* was kept waiting.
C9_Witness ==
    /\ Held("p1") /\ timely["h1"] /\ key.creator = "h1"
    /\ pc["p3"] \in {"try", "sleep"} /\ ~keyGone["p3"] /\ elapsed["p3"] > Expiry

\* C10: Unlock always terminates.  As a state predicate: an Unlock that waits on
\* l.stopped has an acknowledgement buffered there or a heartbeat of its handle
\* alive to send one.
C10_UnlockTerminates ==
    \A p \in Procs :
        pc[p] = "unlockRecv" => (stopped[HandleOf(p)] > 0 \/ Live(HandleOf(p)) # {})

(***************************************************************************)
(* Claims about the job queue.                                             *)
(***************************************************************************)

Listed == Range(waiting) \cup Range(processing)

\* C2: queue conservation.  With one client running Submit, Get, Complete and
\* Resubmit one after the other, every handle finished once, no dedup key is in
\* the waiting list and in the processing list at the same time.
C2_QueueConservation ==
    \A k \in Keys : ~(k \in Range(waiting) /\ k \in Range(processing))

\* After a Resubmit one key waits while another is checked out.
C2_Witness ==
    /\ Idle /\ last.op = "Resubmit" /\ last.err = Nil
    /\ last.key \in Range(waiting) /\ processing # <<>>

\* C3: dedup idempotence.  A Submit(J) right after a Submit(J) that returned nil
\* returns ErrAlreadyQueued and leaves the two lists and the hash as they were,
\* with one entry of J, so that Len() is 1 when J is the only job; and a Submit
\* none of whose store commands failed is refused only when its key is indexed.
C3_DedupIdempotence ==
    /\ (Idle /\ last.op = "Submit" /\ prev # NoJob /\ prev = last.job)
         => /\ last.err = ErrAlreadyQueued
            /\ Snap = last.snap
            /\ Count(waiting, last.key) + Count(processing, last.key) = 1
            /\ HEXISTS(payload, last.key)
            /\ (Listed = {last.key} => HLEN(payload) = 1)
    /\ (last.op = "Submit" /\ last.err = ErrAlreadyQueued /\ ~last.failed)
         => HEXISTS(last.snap.payload, last.key)

\* The second of two Submits of one job was refused and Len() is 1.
C3_Witness ==
    /\ Idle /\ last.op = "Submit" /\ prev # NoJob /\ prev = last.job
    /\ last.err = ErrAlreadyQueued /\ ~last.failed /\ HLEN(payload) = 1

\* C4: under every interleaving of Submit calls of several clients, the waiting
\* list and the processing list together hold at most one copy of a dedup key.
C4_NoSecondCopy ==
    \A k \in Keys : Count(waiting, k) + Count(processing, k) <= 1

\* C5: crash recovery.  After a Cleanup that returned nil the processing list is
\* empty and every key whose handle a stopped consumer dropped is in the waiting
\* list with its entry in the hash; and a Get that pops such a key, with no store
\* failure, returns a handle for it again.
C5_CrashRecovery ==
    /\ (Idle /\ last.op = "Cleanup" /\ last.err = Nil)
         => /\ processing = <<>>
            /\ \A k \in abandoned : k \in Range(waiting) /\ HEXISTS(payload, k)
    /\ (last.op = "Get" /\ last.wasAbandoned /\ ~last.failed)
         => (last.handle /\ last.err = Nil)

\* Get handed out again a key whose handle had been dropped.
C5_Witness ==
    /\ Idle /\ last.op = "Get" /\ last.wasAbandoned /\ last.handle
    /\ handles[last.key] = 1 /\ processing = <<last.key>>

\* C6: round trip.  A Get that follows a Submit(job) which returned nil, on a
\* queue holding nothing else, with no store failure, returns a handle and a
\* value equal to job, for every job type.
C6_RoundTrip ==
    (Idle /\ last.op = "Get" /\ prev # NoJob /\ ~last.failed
          /\ Listed \subseteq {jobQueueRawMarshal(prev)})
        => (last.handle /\ last.err = Nil /\ last.v = prev)

\* C7: Len() is HLEN of the payload hash and counts the distinct keys of the two
\* lists; a Submit that returned nil raised it by one, Get and Resubmit left it
\* as it was, a Complete that returned nil lowered it by one, and it is 0 at first.
C7_LenCountsOutstanding ==
    /\ HLEN(payload) = Cardinality(Listed)
    /\ Idle =>
         /\ (last.op = "Len" /\ ~last.failed) => last.v = HLEN(payload)
         /\ (last.op = "Submit" /\ last.err = Nil) => HLEN(payload) = last.n + 1
         /\ last.op \in {"Get", "Resubmit"} => HLEN(payload) = last.n
         /\ (last.op = "Complete" /\ last.err = Nil) => HLEN(payload) = last.n - 1

\* A Complete that returned nil took Len() from 2 to 1.
C7_Witness ==
    /\ Idle /\ last.op = "Complete" /\ last.err = Nil
    /\ last.n = 2 /\ HLEN(payload) = 1 /\ Cardinality(Listed) = 1

\* C11: for a job type that implements JobQueueKeyer the dedup key of Submit and
\* IsQueued is the derived key: a Submit right after a Submit that returned nil,
\* of a job with the same derived key, returns ErrAlreadyQueued whatever the
\* other fields hold; for every other job type the key is the serialized payload.
C11_DerivedKeyDedup ==
    /\ (last.op = "Submit" /\ ~last.failed /\ prev # NoJob /\ IsKeyer(jobType)
          /\ JobQueueKey(jobType, prev) = JobQueueKey(jobType, last.job))
         => last.err = ErrAlreadyQueued
    /\ (last.op \in {"Submit", "IsQueued"} /\ ~IsKeyer(jobType))
         => last.key = jobQueueRawMarshal(last.job)

\* C12: a store command that failed inside Submit, IsQueued, Len, Cleanup, Get,
\* Complete or Resubmit makes the operation return the store error (Get's panic
\* after a failed resubmit aside), and one that failed inside LockWait makes
\* LockWait return it: never ErrAlreadyQueued, ErrLockTimeout or nil.
C12_StoreErrorSurfaced ==
    /\ (last.op \in {"Submit", "IsQueued", "Len", "Cleanup", "Get", "Complete", "Resubmit"}
          /\ last.failed /\ last.err # Panic)
         => last.err = StoreError
    /\ \A p \in Procs : (cmdFailed[p] /\ ret[p] # None) => ret[p] = StoreError

\* C13: a heartbeat whose renewal failed stops and goes to send on l.errors, in
\* both cases: the SET XX returned a store error, or it found the lease key
\* expired and gone.
C13_RenewalFailureStops ==
    [][\A h \in Handles, i \in Slots :
         (hb[h][i].pc = "set" /\ hb'[h][i].pc # "set" /\ (fails' # fails \/ ~key.present))
             => hb'[h][i].pc = "errSend"]_vars

\* C14: no heartbeat of a handle writes or refreshes a lease key that another
\* handle's acquisition created: its SET XX leaves such a key as it was.
C14_OnlyOwnRenewals ==
    [][\A h \in Handles, i \in Slots :
         (hb[h][i].pc = "set" /\ hb'[h][i].pc # "set" /\ key.present /\ key.creator # h)
             => key' = key]_vars

\* C15: a handle has at most one heartbeat at any time; when l.lock is free
\* (Unlock has returned, or LockWait returned an error) none is running, and none
\* is running while a LockWait on the handle tries or sleeps: no renewal of an
\* earlier acquisition happens during or after a later LockWait.
C15_SingleHeartbeat ==
    /\ \A h \in Handles :
         /\ Cardinality(Live(h)) <= 1
         /\ lock[h] = None => Live(h) = {}
    /\ \A p \in Procs : pc[p] \in {"try", "sleep"} => Live(HandleOf(p)) = {}

\* p2 is inside LockWait on the handle whose earlier acquisition, since released
\* by Unlock, created the key that is still in the store, and no heartbeat runs.
C15_Witness ==
    /\ key.present /\ key.creator = "h1" /\ fails = 0
    /\ lock["h1"] = "p2" /\ pc["p2"] = "sleep" /\ pc["p1"] = "mutex"
    /\ Live("h1") = {}

\* C16: a Get that popped a key and then failed to read or decode its payload
\* returns no handle and leaves the dedup index as it was; when it returns the
\* error the key is back at the head of the waiting list and out of the
\* processing list; and when the resubmit itself failed it panics.
C16_GetFailureResubmits ==
    (Idle /\ last.op = "Get" /\ last.key # <<>> /\ last.err # Nil)
        => /\ ~last.handle
           /\ HLEN(payload) = last.n
           /\ last.err # Panic
                => /\ waiting # <<>> /\ waiting[1] = last.key
                   /\ last.key \notin Range(processing)
           /\ (last.failed /\ last.err # StoreError) => last.err = Panic

\* Get popped the only key, could not decode its payload, and put it back.
C16_Witness ==
    /\ Idle /\ last.op = "Get" /\ last.err = UnmarshalError /\ ~last.handle
    /\ waiting = <<last.key>> /\ processing = <<>> /\ HEXISTS(payload, last.key)

\* C17: from the Get that returned a handle until that handle's Complete, the
\* handle's key stays in the dedup index, so that IsQueued reports true and a
\* Submit of the key is refused, under every interleaving of the clients.
C17_IndexedWhileHandled ==
    \A k \in Keys : handles[k] > 0 => HEXISTS(payload, k)

InCleanup == \E c \in Clients : cpc[c] = "cleanup"

\* C18: Cleanup calls of several clients, interleaved, with no Get in progress:
\* every step taken while a Cleanup runs keeps the number of entries each key has
\* in the two lists together, only shortens the processing list and leaves the
\* hash alone; once a Cleanup has returned nil the processing list is empty; and
\* every Cleanup call returns.
C18_ConcurrentCleanup ==
    /\ [][InCleanup =>
            /\ \A k \in Keys : Count(waiting', k) + Count(processing', k)
                                 = Count(waiting, k) + Count(processing, k)
            /\ \A k \in Keys : Count(processing', k) <= Count(processing, k)
            /\ payload' = payload]_vars
    /\ []((NoGet /\ last.op = "Cleanup" /\ last.err = Nil) => processing = <<>>)
    /\ \A c \in Clients : (cpc[c] = "cleanup") ~> (cpc[c] = "idle")

\* Both clients are inside Cleanup, one dropped job already moved to the waiting
\* list and another still in the processing list.
C18_Witness ==
    /\ cpc["c1"] = "cleanup" /\ cpc["c2"] = "cleanup"
    /\ \E k \in abandoned : k \in Range(waiting)
    /\ \E k \in abandoned : k \in Range(processing)

\* C19: the waiting list is first-in first-out.  Whatever enters it, by Submit,
\* by Resubmit or by Cleanup, enters at the head, behind every key already
\* waiting, and Get takes the tail, the key that has waited longest, and puts
\* it on the processing list.
C19_WaitingListFIFO ==
    [][/\ Len(waiting') > Len(waiting)
            => /\ Len(waiting') = Len(waiting) + 1
               /\ SubSeq(waiting', 2, Len(waiting')) = waiting
       /\ Len(waiting') < Len(waiting)
            => /\ waiting' = SubSeq(waiting, 1, Len(waiting) - 1)
               /\ processing' = <<waiting[Len(waiting)]>> \o processing
       /\ Len(waiting') = Len(waiting) => waiting' = waiting]_vars

\* A resubmitted key stands at the head of the waiting list, behind a key that
\* was waiting before it.
C19_Witness ==
    /\ Idle /\ last.op = "Resubmit" /\ last.err = Nil
    /\ Len(waiting) >= 2 /\ waiting[1] = last.key /\ waiting[2] # last.key

\* C20: no job is lost from the lists while it is indexed.  Under every
\* interleaving of Submit, Get, Complete, Resubmit and Cleanup of several
\* clients, handles finished twice included, every key in the dedup index is in
\* the waiting list or in the processing list.
C20_IndexedIsListed ==
    \A k \in Keys : HEXISTS(payload, k) => k \in Listed

\* A handle was completed and then resubmitted: its key waits, out of the index,
\* while another key is indexed and checked out.
C20_Witness ==
    \E k \in Keys :
        /\ handles[k] > 0 /\ Count(waiting, k) = 1 /\ ~HEXISTS(payload, k)
        /\ \E j \in Keys : j # k /\ HEXISTS(payload, j) /\ j \in Range(processing)

=============================================================================
